---- MODULE Spec2Model ----
(***************************************************************************)
(* Model of LLM-extractor (src/modules/llm_extractor.py): the answer       *)
(* parser of query_gemini, the markdown report merge of                    *)
(* update_markdown_file, the table built by export_to_xlsx and the         *)
(* document loop of process_directory.                                     *)
(*                                                                         *)
(* A text (Python str) is a sequence of characters, each a one-character   *)
(* string.  Fixed markup that the program only ever writes and never       *)
(* inspects ("*Processed on: ", "**Short Answer:**", ...) is carried as    *)
(* one indivisible element; none of it begins with '#', '>' or a blank.    *)
(* A Python value is a record [type, val]: "str" (val a text), "null",     *)
(* "num" (val the digits), "list" (val the items), "dict" (val the         *)
(* sequence of <<key text, value>> pairs in insertion order).              *)
(***************************************************************************)
EXTENDS Integers, Sequences, FiniteSets, TLC

\* ------------------------------------------------------------------ bounds
MaxCalls == 4
MaxClock == 2

\* ------------------------------------------------------------ text helpers
NL == "\n"
BSL == "\\"

Min(S) == CHOOSE x \in S : \A y \in S : x <= y

IsSpace(c) == c \in {" ", "\t", "\n", "\r"}

UpperCase == <<"A","B","C","D","E","F","G","H","I","J","K","L","M",
               "N","O","P","Q","R","S","T","U","V","W","X","Y","Z">>
LowerCase == <<"a","b","c","d","e","f","g","h","i","j","k","l","m",
               "n","o","p","q","r","s","t","u","v","w","x","y","z">>

lowerChar(c) ==
    IF \E k \in 1..26 : UpperCase[k] = c
    THEN LowerCase[CHOOSE k \in 1..26 : UpperCase[k] = c]
    ELSE c

lower(s) == [k \in 1..Len(s) |-> lowerChar(s[k])]

strip(s) ==
    LET keep == {k \in 1..Len(s) : ~IsSpace(s[k])}
    IN  IF keep = {} THEN <<>>
        ELSE SubSeq(s, Min(keep), CHOOSE k \in keep : \A j \in keep : j <= k)

startswith(s, p) == Len(s) >= Len(p) /\ SubSeq(s, 1, Len(p)) = p

\* s[i:i+Len(p)] = p
PrefixAt(s, i, p) == i + Len(p) - 1 <= Len(s) /\ SubSeq(s, i, i + Len(p) - 1) = p

\* p in s (substring test)
contains(s, p) == \E i \in 1..(Len(s) + 1) : PrefixAt(s, i, p)

\* s.split(sep) for a one-character separator
RECURSIVE split(_, _)
split(s, sep) ==
    LET hits == {k \in 1..Len(s) : s[k] = sep}
    IN  IF hits = {} THEN <<s>>
        ELSE <<SubSeq(s, 1, Min(hits) - 1)>>
             \o split(SubSeq(s, Min(hits) + 1, Len(s)), sep)

\* sep.join(parts)
RECURSIVE join(_, _)
join(parts, sep) ==
    IF parts = <<>> THEN <<>>
    ELSE IF Len(parts) = 1 THEN parts[1]
    ELSE parts[1] \o sep \o join(Tail(parts), sep)

\* s.replace(old, new, 1)
replaceFirst(s, old, new) ==
    LET hits == {i \in 1..(Len(s) + 1) : PrefixAt(s, i, old)}
    IN  IF hits = {} THEN s
        ELSE SubSeq(s, 1, Min(hits) - 1) \o new
             \o SubSeq(s, Min(hits) + Len(old), Len(s))

\* ---------------------------------------------------------- Python values
PyStr(t) == [type |-> "str", val |-> t]
PyNone == [type |-> "null", val |-> <<>>]
PyNum(digits) == [type |-> "num", val |-> digits]
PyList(items) == [type |-> "list", val |-> items]
PyDict(pairs) == [type |-> "dict", val |-> pairs]

\* dict operations on the pair sequence (insertion ordered, keys unique)
DictHas(d, k) == \E i \in 1..Len(d.val) : d.val[i][1] = k
DictGet(d, k, default) ==
    IF DictHas(d, k)
    THEN d.val[CHOOSE i \in 1..Len(d.val) : d.val[i][1] = k][2]
    ELSE default
DictKeys(d) == [i \in 1..Len(d.val) |-> d.val[i][1]]
DictSet(d, k, v) ==
    IF DictHas(d, k)
    THEN PyDict([i \in 1..Len(d.val) |->
                    IF d.val[i][1] = k THEN <<k, v>> ELSE d.val[i]])
    ELSE PyDict(Append(d.val, <<k, v>>))

NA == <<"N", "A">>
KEY_SHORT == <<"s","h","o","r","t","_","a","n","s","w","e","r">>
KEY_LONG == <<"l","o","n","g","_","a","n","s","w","e","r">>
KEY_QUOTE == <<"q","u","o","t","e">>

AnswerDict(s, l, q) ==
    PyDict(<< <<KEY_SHORT, PyStr(s)>>, <<KEY_LONG, PyStr(l)>>, <<KEY_QUOTE, PyStr(q)>> >>)

\* -------------------------------------------------------- report rendering
H2 == <<"#", "#", " ">>
TITLE_LINE == "# Extraction Results"
GENERATED == "Generated on: "
RULE == "---"
PROCESSED == "*Processed on: "
STAR == "*"
QPRE == "**Q"
QPOST == ":** "
HDR_SHORT == "**Short Answer:**"
HDR_LONG == "**Long Answer:**"
HDR_QUOTE == "**Quote:**"

\* datetime.now().strftime(...): the reading of a clock with one-second steps
Timestamp(t) == <<ToString(t)>>

\* the header process_directory writes when the report does not exist
InitialHeader(t) ==
    <<TITLE_LINE, NL, NL, GENERATED>> \o Timestamp(t) \o <<NL, NL, RULE, NL, NL>>

Ok(t) == [ok |-> TRUE, text |-> t]
Raise == [ok |-> FALSE, text |-> <<>>]

\* f"{content}" of a value that is not a str
pystr(v) ==
    CASE v.type = "str" -> v.val
      [] v.type = "null" -> <<"N","o","n","e">>
      [] v.type = "num" -> v.val
      [] v.type = "list" -> <<"[", "]">>
      [] OTHER -> <<"{", "}">>

\* bool(content)
Truthy(v) ==
    CASE v.type = "null" -> FALSE
      [] v.type = "num" -> v.val # <<"0">>
      [] OTHER -> v.val # <<>>

_format_for_blockquote(content) ==
    IF ~Truthy(content) \/ content = PyStr(NA)
    THEN Ok(<<">", " ">> \o pystr(content))
    ELSE IF content.type # "str" THEN Raise    \* no .split on a non-str
    ELSE LET lines == split(content.val, NL)
             fmt(line) == IF strip(line) # <<>> THEN <<">", " ">> \o line
                          ELSE <<">">>
         IN  Ok(join([k \in 1..Len(lines) |-> fmt(lines[k])], <<NL>>))

\* the block of one question (lines 541-562); i is its 1-based number
QuestionBlock(i, question, structured_answer) ==
    LET head == <<QPRE, ToString(i), QPOST>> \o question \o <<NL, NL>>
    IN  IF structured_answer.type = "dict"
        THEN LET sa == _format_for_blockquote(DictGet(structured_answer, KEY_SHORT, PyStr(NA)))
                 la == _format_for_blockquote(DictGet(structured_answer, KEY_LONG, PyStr(NA)))
                 qu == _format_for_blockquote(DictGet(structured_answer, KEY_QUOTE, PyStr(NA)))
             IN  IF ~(sa.ok /\ la.ok /\ qu.ok) THEN Raise
                 ELSE Ok(head
                         \o <<">", " ", HDR_SHORT, NL>> \o sa.text \o <<NL, NL>>
                         \o <<">", " ", HDR_LONG, NL>> \o la.text \o <<NL, NL>>
                         \o <<">", " ", HDR_QUOTE, NL>> \o qu.text \o <<NL, NL>>)
        ELSE LET answer_lines == split(pystr(structured_answer), NL)
             IN  Ok(head
                    \o join([k \in 1..Len(answer_lines) |->
                                <<">", " ">> \o answer_lines[k]], <<NL>>)
                    \o <<NL, NL>>)

\* the question list used for numbering (lines 531-538): config/questions.yaml
\* when it can be read, else the keys of the results
NumberingList(yaml, qa_results) ==
    IF yaml.ok THEN yaml.questions ELSE DictKeys(qa_results)

RECURSIVE QuestionBlocks(_, _, _)
QuestionBlocks(questions_list, qa_results, i) ==
    IF i > Len(questions_list) THEN Ok(<<>>)
    ELSE LET rest == QuestionBlocks(questions_list, qa_results, i + 1)
         IN  IF ~DictHas(qa_results, questions_list[i]) THEN rest
             ELSE LET b == QuestionBlock(i, questions_list[i],
                                         DictGet(qa_results, questions_list[i], PyNone))
                  IN  IF b.ok /\ rest.ok THEN Ok(b.text \o rest.text) ELSE Raise

\* new_section (lines 527-562)
NewSection(pdf_title, qa_results, yaml, t) ==
    LET blocks == QuestionBlocks(NumberingList(yaml, qa_results), qa_results, 1)
    IN  IF ~blocks.ok THEN Raise
        ELSE Ok(<<NL>> \o H2 \o pdf_title \o <<NL, NL>>
                \o <<PROCESSED>> \o Timestamp(t) \o <<STAR, NL, NL>>
                \o blocks.text)

\* ------------------------------------------------- the section pattern
\* '^' under re.MULTILINE
LineStart(s, i) == i = 1 \/ s[i - 1] = NL

\* rf"^## {re.escape(pdf_title)}$" matches at i
HeadingAt(s, i, pdf_title) ==
    LET e == i + 3 + Len(pdf_title)
    IN  /\ LineStart(s, i)
        /\ PrefixAt(s, i, H2 \o pdf_title)
        /\ (e = Len(s) + 1 \/ s[e] = NL)      \* '$' under re.MULTILINE

\* ".*?(?=^## |\Z)" from position e: the first place the lookahead holds
SectionEnd(s, e) ==
    Min({j \in e..(Len(s) + 1) :
            j = Len(s) + 1 \/ (LineStart(s, j) /\ PrefixAt(s, j, H2))})

\* re.search(section_pattern, existing_content, re.MULTILINE | re.DOTALL)
SectionFound(s, pdf_title) == \E i \in 1..Len(s) : HeadingAt(s, i, pdf_title)

ControlEscapes == <<"n", "t", "r", "a", "b", "f", "v">>
ControlChars == <<NL, "\t", "\r", "BEL", "BS", "\f", "VT">>
IsLetter(c) == \E k \in 1..26 : c = UpperCase[k] \/ c = LowerCase[k]

\* the replacement string of re.sub is a template: its backslash escapes
\* are processed; m is the matched text (group 0)
RECURSIVE ExpandTemplate(_, _, _)
ExpandTemplate(r, i, m) ==
    LET bs == {k \in i..Len(r) : r[k] = BSL}
    IN  IF bs = {} THEN Ok(SubSeq(r, i, Len(r)))
        ELSE LET b == Min(bs)
                 lit == SubSeq(r, i, b - 1)      \* literal text before the backslash
                 c == r[b + 1]
                 Then(out, next) ==
                     LET rest == ExpandTemplate(r, next, m)
                     IN  IF rest.ok THEN Ok(lit \o out \o rest.text) ELSE Raise
             IN  IF b = Len(r) THEN Raise            \* bad escape (end of pattern)
                 ELSE IF \E k \in 1..7 : ControlEscapes[k] = c
                 THEN Then(<<ControlChars[CHOOSE k \in 1..7 : ControlEscapes[k] = c]>>, b + 2)
                 ELSE IF c = BSL THEN Then(<<BSL>>, b + 2)
                 ELSE IF c = "g" /\ PrefixAt(r, b + 2, <<"<", "0", ">">>)
                 THEN Then(m, b + 5)
                 ELSE IF c = "0" THEN Then(<<"NUL">>, b + 2)
                 ELSE IF IsLetter(c) \/ c \in {"1","2","3","4","5","6","7","8","9"}
                 THEN Raise             \* bad escape / invalid group reference
                 ELSE Then(<<BSL, c>>, b + 2)

\* re.sub(section_pattern, repl, s, flags=...) from position pos on: every
\* non-overlapping match, left to right
RECURSIVE SubSections(_, _, _, _)
SubSections(s, pdf_title, repl, pos) ==
    LET starts == {i \in pos..Len(s) : HeadingAt(s, i, pdf_title)}
    IN  IF starts = {} THEN Ok(SubSeq(s, pos, Len(s)))
        ELSE LET i == Min(starts)
                 j == SectionEnd(s, i + 3 + Len(pdf_title))
                 x == ExpandTemplate(repl, 1, SubSeq(s, i, j - 1))
                 rest == SubSections(s, pdf_title, repl, j)
             IN  IF x.ok /\ rest.ok
                 THEN Ok(SubSeq(s, pos, i - 1) \o x.text \o rest.text)
                 ELSE Raise

\* update_markdown_file: the new content of the file, or an exception
\* raised before the file is opened for writing
update_markdown_file(existing_content, pdf_title, qa_results, yaml, t) ==
    LET new_section == NewSection(pdf_title, qa_results, yaml, t)
    IN  IF ~new_section.ok THEN Raise
        ELSE IF SectionFound(existing_content, pdf_title)
        THEN SubSections(existing_content, pdf_title, strip(new_section.text), 1)
        ELSE Ok(existing_content \o new_section.text)

\* ------------------------------------------------------------- json.loads
PyBool(b) == [type |-> "bool",
              val |-> IF b THEN <<"T","r","u","e">> ELSE <<"F","a","l","s","e">>]

\* result of a parse step: the value and the position after it
Parsed(v, n) == [ok |-> TRUE, val |-> v, next |-> n]
ParseFail == [ok |-> FALSE, val |-> PyNone, next |-> 0]

\* JSON whitespace: blank, tab, line feed, carriage return
SkipWs(s, i) ==
    Min({k \in i..(Len(s) + 1) : k = Len(s) + 1 \/ ~IsSpace(s[k])})

JsonEscapes == <<"\"", BSL, "/", "n", "t", "r">>
JsonEscaped == <<"\"", BSL, "/", NL, "\t", "\r">>
Digits == {"0", "1", "2", "3", "4", "5", "6", "7", "8", "9"}

\* the characters of a string literal from position k (after the opening
\* quote) to its closing quote; a raw control character is rejected
\* (strict mode); escapes other than JsonEscapes are not in the modelled
\* alphabet and are rejected
RECURSIVE ScanString(_, _)
ScanString(s, k) ==
    LET stops == {j \in k..Len(s) : s[j] \in {"\"", BSL, NL, "\t", "\r"}}
    IN  IF stops = {} THEN ParseFail                  \* unterminated string
        ELSE LET j == Min(stops)
                 chunk == SubSeq(s, k, j - 1)
             IN  IF s[j] = "\"" THEN Parsed(chunk, j + 1)
                 ELSE IF s[j] # BSL THEN ParseFail    \* invalid control character
                 ELSE IF j = Len(s) THEN ParseFail
                 ELSE IF ~(\E e \in 1..6 : JsonEscapes[e] = s[j + 1]) THEN ParseFail
                 ELSE LET rest == ScanString(s, j + 2)
                          c == JsonEscaped[CHOOSE e \in 1..6 : JsonEscapes[e] = s[j + 1]]
                      IN  IF rest.ok THEN Parsed(chunk \o <<c>> \o rest.val, rest.next)
                          ELSE ParseFail

\* an integer literal: -?(0|[1-9][0-9]*)
ScanNumber(s, i) ==
    LET d == IF s[i] = "-" THEN i + 1 ELSE i
        e == Min({k \in d..(Len(s) + 1) : k = Len(s) + 1 \/ s[k] \notin Digits})
    IN  IF e = d THEN ParseFail
        ELSE IF s[d] = "0" THEN Parsed(PyNum(SubSeq(s, i, d)), d + 1)
        ELSE Parsed(PyNum(SubSeq(s, i, e - 1)), e)

RECURSIVE ParseValue(_, _), ParseItems(_, _, _), ParsePairs(_, _, _)

\* the value that starts at position i (whitespace already skipped)
ParseValue(s, i) ==
    IF i > Len(s) THEN ParseFail
    ELSE IF s[i] = "\""
    THEN LET t == ScanString(s, i + 1)
         IN  IF t.ok THEN Parsed(PyStr(t.val), t.next) ELSE ParseFail
    ELSE IF s[i] = "{"
    THEN LET j == SkipWs(s, i + 1)
         IN  IF j <= Len(s) /\ s[j] = "}" THEN Parsed(PyDict(<<>>), j + 1)
             ELSE ParsePairs(s, j, PyDict(<<>>))
    ELSE IF s[i] = "["
    THEN LET j == SkipWs(s, i + 1)
         IN  IF j <= Len(s) /\ s[j] = "]" THEN Parsed(PyList(<<>>), j + 1)
             ELSE ParseItems(s, j, <<>>)
    ELSE IF PrefixAt(s, i, <<"n","u","l","l">>) THEN Parsed(PyNone, i + 4)
    ELSE IF PrefixAt(s, i, <<"t","r","u","e">>) THEN Parsed(PyBool(TRUE), i + 4)
    ELSE IF PrefixAt(s, i, <<"f","a","l","s","e">>) THEN Parsed(PyBool(FALSE), i + 5)
    ELSE IF s[i] = "-" \/ s[i] \in Digits THEN ScanNumber(s, i)
    ELSE ParseFail

\* the items of an array from position i, up to the closing bracket
ParseItems(s, i, acc) ==
    LET v == ParseValue(s, i)
    IN  IF ~v.ok THEN ParseFail
        ELSE LET j == SkipWs(s, v.next)
             IN  IF j > Len(s) THEN ParseFail
                 ELSE IF s[j] = "]" THEN Parsed(PyList(Append(acc, v.val)), j + 1)
                 ELSE IF s[j] = "," THEN ParseItems(s, SkipWs(s, j + 1), Append(acc, v.val))
                 ELSE ParseFail

\* the "key": value pairs of an object from position i, up to the closing
\* brace; a repeated key keeps its place and takes the later value
ParsePairs(s, i, acc) ==
    IF i > Len(s) \/ s[i] # "\"" THEN ParseFail
    ELSE LET k == ScanString(s, i + 1)
         IN  IF ~k.ok THEN ParseFail
             ELSE LET c == SkipWs(s, k.next)
                  IN  IF c > Len(s) \/ s[c] # ":" THEN ParseFail
                      ELSE LET v == ParseValue(s, SkipWs(s, c + 1))
                           IN  IF ~v.ok THEN ParseFail
                               ELSE LET j == SkipWs(s, v.next)
                                        d == DictSet(acc, k.val, v.val)
                                    IN  IF j > Len(s) THEN ParseFail
                                        ELSE IF s[j] = "}" THEN Parsed(d, j + 1)
                                        ELSE IF s[j] = ","
                                        THEN ParsePairs(s, SkipWs(s, j + 1), d)
                                        ELSE ParseFail

\* json.loads(text): ok = FALSE stands for json.JSONDecodeError
json_loads(text) ==
    LET v == ParseValue(text, SkipWs(text, 1))
    IN  IF ~v.ok THEN ParseFail
        ELSE IF SkipWs(text, v.next) # Len(text) + 1 THEN ParseFail    \* extra data
        ELSE v


\* ------------------------------------------------- the answer of one query
LABEL_SHORT == <<"s","h","o","r","t"," ","a","n","s","w","e","r",":">>
LABEL_LONG == <<"l","o","n","g"," ","a","n","s","w","e","r",":">>
LABEL_QUOTE == <<"q","u","o","t","e",":">>
ERROR_PREFIX == "Error querying Gemini: "

\* the loop of lines 307-316 from line i on
RECURSIVE FallbackScan(_, _, _, _, _)
FallbackScan(lines, i, short_answer, long_answer, quote) ==
    IF i > Len(lines) THEN AnswerDict(short_answer, long_answer, quote)
    ELSE LET line == lines[i]
             line_lower == strip(lower(line))
         IN  IF startswith(line_lower, LABEL_SHORT)
             THEN FallbackScan(lines, i + 1,
                               strip(SubSeq(line, Len(LABEL_SHORT) + 1, Len(line))),
                               long_answer, quote)
             ELSE IF startswith(line_lower, LABEL_QUOTE)
             THEN FallbackScan(lines, i + 1, short_answer, long_answer,
                               strip(SubSeq(line, Len(LABEL_QUOTE) + 1, Len(line))))
             ELSE IF startswith(line_lower, LABEL_LONG)
             THEN AnswerDict(short_answer,
                             strip(replaceFirst(join(SubSeq(lines, i, Len(lines)), <<NL>>),
                                                LABEL_LONG, <<>>)),
                             quote)
             ELSE FallbackScan(lines, i + 1, short_answer, long_answer, quote)

_create_fallback_response(raw_text) ==
    FallbackScan(split(raw_text, NL), 1, NA, raw_text, NA)

\* the record of lines 266-270 for an exception whose str() is msg
ErrorRecord(msg) ==
    AnswerDict(<<ERROR_PREFIX>> \o msg, <<ERROR_PREFIX>> \o msg, NA)

\* str() of the TypeError raised by "key in result" for a value that is not
\* a container
NotIterable(v) ==
    <<"argument of type '",
      CASE v.type = "num" -> "int" [] v.type = "null" -> "NoneType" [] OTHER -> "bool",
      "' is not iterable">>

\* "key in result" (line 252) for a dict, a str or a list
KeyIn(key, result) ==
    CASE result.type = "dict" -> DictHas(result, key)
      [] result.type = "str" -> contains(result.val, key)
      [] OTHER -> \E k \in 1..Len(result.val) : result.val[k] = PyStr(key)

RequiredKeys == <<KEY_SHORT, KEY_LONG, KEY_QUOTE>>

\* query_gemini with the line scan applied to every response text
query_gemini_scan_always(response) ==
    IF ~response.ok THEN ErrorRecord(response.error)
    ELSE _create_fallback_response(response.text)

\* query_gemini from the return of generate_content on (lines 242-270);
\* response.ok = FALSE is an exception raised by the call, response.error its
\* str(); otherwise response.text is the response text
query_gemini(response) ==
    IF ~response.ok THEN ErrorRecord(response.error)
    ELSE LET result == json_loads(response.text)
         IN  IF ~result.ok THEN _create_fallback_response(response.text)
             ELSE IF result.val.type \in {"num", "null", "bool"}
             THEN ErrorRecord(NotIterable(result.val))
             ELSE IF \A k \in 1..3 : KeyIn(RequiredKeys[k], result.val)
             THEN result.val
             ELSE _create_fallback_response(response.text)

\* ------------------------------------------------------------ column names
FallbackNameLen == 25

\* the name derived from a question's own text: its first characters with
\* whitespace replaced by underscores
DerivedName(question) ==
    LET t == strip(question)
        cut == SubSeq(t, 1, IF Len(t) < FallbackNameLen THEN Len(t) ELSE FallbackNameLen)
    IN  [k \in 1..Len(cut) |-> IF IsSpace(cut[k]) THEN "_" ELSE cut[k]]

\* the deterministic names: the derived name, or Question_{i+1} when it is
\* empty or repeats the derived name of an earlier question
_create_fallback_column_names(questions) ==
    PyList([i \in 1..Len(questions) |->
              IF \/ DerivedName(questions[i]) = <<>>
                 \/ \E j \in 1..(i - 1) : DerivedName(questions[j]) = DerivedName(questions[i])
              THEN PyStr(<<"Question_", ToString(i)>>)
              ELSE PyStr(DerivedName(questions[i]))])

\* generate_column_names_from_questions that trusts the length of the list
generate_column_names_unchecked(questions, naming) ==
    IF ~naming.ok THEN _create_fallback_column_names(questions)
    ELSE LET column_names == json_loads(naming.text)
         IN  IF ~column_names.ok THEN _create_fallback_column_names(questions)
             ELSE IF column_names.val.type = "list" THEN column_names.val
             ELSE _create_fallback_column_names(questions)

\* generate_column_names_from_questions (lines 334-377); naming is what the
\* generate_content call of line 353 gave: an exception or a response text
generate_column_names_from_questions(questions, naming) ==
    IF ~naming.ok THEN _create_fallback_column_names(questions)
    ELSE LET column_names == json_loads(naming.text)
         IN  IF ~column_names.ok THEN _create_fallback_column_names(questions)
             ELSE IF /\ column_names.val.type = "list"
                     /\ Len(column_names.val.val) = Len(questions)
             THEN column_names.val
             ELSE _create_fallback_column_names(questions)


\* ------------------------------------------------------------ table export
PDF_TITLE == <<"P","D","F","_","T","i","t","l","e">>
ShortMax == 100
ShortCut == 97

\* extract_short_answer (lines 380-407); the legacy branch works on the
\* str() of a value that is not a dict
RECURSIVE LegacyShortAnswer(_, _, _)
LegacyShortAnswer(lines, i, full_answer) ==
    IF i > Len(lines)
    THEN LET first_line == strip(split(full_answer, NL)[1])
         IN  IF Len(first_line) <= ShortMax THEN first_line
             ELSE SubSeq(first_line, 1, ShortCut) \o <<".", ".", ".">>
    ELSE LET line == strip(lines[i])
         IN  IF startswith(lower(line), LABEL_SHORT)
             THEN strip(SubSeq(line, Len(LABEL_SHORT) + 1, Len(line)))
             ELSE LegacyShortAnswer(lines, i + 1, full_answer)

extract_short_answer(structured_answer) ==
    IF structured_answer.type = "dict"
    THEN DictGet(structured_answer, KEY_SHORT, PyStr(NA))
    ELSE PyStr(LegacyShortAnswer(split(pystr(structured_answer), NL), 1,
                                 pystr(structured_answer)))

\* the row of one document (lines 425-432): a dict from column name to cell,
\* filled question by question; a later question with the same column name
\* overwrites the cell
RECURSIVE FillRow(_, _, _, _, _)
FillRow(row, qa_results, qs, cols, i) ==
    IF i > Len(qs) THEN row
    ELSE LET column_name == IF i <= Len(cols.val) THEN cols.val[i]
                            ELSE PyStr(<<"Question_", ToString(i)>>)
             structured_answer == DictGet(qa_results, qs[i], PyDict(<<>>))
         IN  FillRow(DictSet(row, column_name, extract_short_answer(structured_answer)),
                     qa_results, qs, cols, i + 1)

\* data_rows (lines 422-434): one row per title of all_results, in its order
DataRows(all_res, qs, cols) ==
    [d \in 1..Len(all_res.val) |->
        FillRow(PyDict(<< <<PyStr(PDF_TITLE), PyStr(all_res.val[d][1])>> >>),
                all_res.val[d][2], qs, cols, 1)]

\* export_to_xlsx: the rows written, or the exception of a failed write
\* (re-raised at line 461); a column name that is a list or a dict cannot
\* be a key of the row
export_to_xlsx(all_res, qs, cols, write_ok) ==
    IF \E i \in 1..Len(cols.val) :
          i <= Len(qs) /\ cols.val[i].type \in {"list", "dict"} /\ Len(all_res.val) > 0
    THEN [ok |-> FALSE, rows |-> <<>>]
    ELSE IF ~write_ok THEN [ok |-> FALSE, rows |-> <<>>]
    ELSE [ok |-> TRUE, rows |-> DataRows(all_res, qs, cols)]

\* ---------------------------------------------------------- document titles
endswith(s, p) == Len(s) >= Len(p) /\ SubSeq(s, Len(s) - Len(p) + 1, Len(s)) = p

\* Path(pdf_filename).stem
Stem(name) ==
    LET dots == {k \in 2..(Len(name) - 1) : name[k] = "."}
    IN  IF dots = {} THEN name
        ELSE SubSeq(name, 1, (CHOOSE k \in dots : \A j \in dots : j <= k) - 1)

\* re.sub(r'\s+', ' ', title): every run of whitespace becomes one blank
CollapseSpaces(t) ==
    LET keep == {k \in 1..Len(t) : ~IsSpace(t[k]) \/ k = 1 \/ ~IsSpace(t[k - 1])}
        RECURSIVE Pick(_)
        Pick(k) == IF k > Len(t) THEN <<>>
                   ELSE IF k \in keep
                   THEN <<IF IsSpace(t[k]) THEN " " ELSE t[k]>> \o Pick(k + 1)
                   ELSE Pick(k + 1)
    IN  Pick(1)

get_pdf_title(pdf_filename) == strip(CollapseSpaces(Stem(pdf_filename)))


\* ------------------------------------- what the service can answer (inputs)
\* json.dumps of a value: the text a complying service sends
JsonEscapeChar(c) ==
    IF \E e \in 1..6 : e # 3 /\ JsonEscaped[e] = c
    THEN <<BSL, JsonEscapes[CHOOSE e \in 1..6 : e # 3 /\ JsonEscaped[e] = c]>>
    ELSE <<c>>

RECURSIVE Flatten(_)
Flatten(parts) == IF parts = <<>> THEN <<>> ELSE Head(parts) \o Flatten(Tail(parts))

JsonString(t) == <<"\"">> \o Flatten([k \in 1..Len(t) |-> JsonEscapeChar(t[k])]) \o <<"\"">>

RECURSIVE Encode(_)
Encode(v) ==
    CASE v.type = "str" -> JsonString(v.val)
      [] v.type = "num" -> v.val
      [] v.type = "null" -> <<"n","u","l","l">>
      [] v.type = "bool" -> lower(v.val)
      [] v.type = "list" ->
            <<"[">> \o join([k \in 1..Len(v.val) |-> Encode(v.val[k])], <<",", " ">>) \o <<"]">>
      [] OTHER ->
            <<"{">> \o join([k \in 1..Len(v.val) |->
                                JsonString(v.val[k][1]) \o <<":", " ">> \o Encode(v.val[k][2])],
                            <<",", " ">>) \o <<"}">>


\* ------------------------------------------------------------------- state
VARIABLES
    report,          \* content of the markdown output file
    clock,           \* the wall clock, in seconds
    questions_yaml,  \* what open('config/questions.yaml') + yaml.safe_load gives
    calls,           \* number of update_markdown_file calls made so far
    last_call,       \* title, results and outcome of the latest call
    response,        \* what generate_content gave for the query at hand
    sent,            \* the value the service serialised into response.text
    answer,          \* what query_gemini returned for it
    questions,       \* the question list of the run (load_questions)
    naming,          \* what the column naming call gave
    column_names,    \* the column names derived for the run
    report_exists,   \* os.path.exists(output_file)
    pc,              \* where process_directory stands
    xlsx_output,     \* whether a table export was requested
    pdf_files,       \* the PDF files found, in listing order
    file_idx,        \* 1-based index of the document at hand
    q_idx,           \* 1-based index of the next question of process_pdf
    results,         \* the results dict process_pdf is filling
    all_results,     \* title -> results, for the export
    successful_files,
    failed_files,
    table,           \* what export_to_xlsx wrote
    uploads,         \* history: index of the document of each upload attempt
    asked,           \* history: <<document index, question>> of each query
    status,          \* history: how each document handled so far ended
    handled          \* history: what process_pdf returned for each document

mergeVars == <<report, clock, questions_yaml, calls, last_call>>
parseVars == <<response, sent, answer>>
namingVars == <<questions, naming, column_names>>
batchVars == <<report_exists, pc, xlsx_output, pdf_files, file_idx, q_idx, results,
               all_results, successful_files, failed_files, table, uploads, asked, status,
               handled>>
vars == <<report, clock, questions_yaml, calls, last_call, response, sent, answer,
          questions, naming, column_names, report_exists, pc, xlsx_output, pdf_files,
          file_idx, q_idx, results, all_results, successful_files, failed_files, table,
          uploads, asked, status, handled>>

\* ------------------------------------------------------------ input domains
Q1 == <<"p", "?">>
Q2 == <<"q", "?">>
Questions == <<Q1, Q2>>

TitleA == <<"A">>
TitleB == <<"B">>
TitleC == <<"C">>
Titles == {TitleA, TitleB, TitleC}

YamlMissing == [ok |-> FALSE, questions |-> <<>>]
YamlOf(qs) == [ok |-> TRUE, questions |-> qs]
YamlStates == {YamlMissing, YamlOf(Questions), YamlOf(<<Q2>>)}

Res1 == PyDict(<< <<Q1, AnswerDict(<<"x">>, <<"l", NL, NL, "m">>, NA)>>,
                  <<Q2, AnswerDict(<<"y">>, <<"n">>, <<"z">>)>> >>)
Res2 == PyDict(<< <<Q1, AnswerDict(<<"u">>, <<"v">>, NA)>>,
                  <<Q2, AnswerDict(<<"w">>, <<"k">>, NA)>> >>)
MergeResults == {Res1, Res2}

NoCall == [title |-> <<>>, qa |-> PyDict(<<>>), outcome |-> "none"]

\* no query at hand
NoValue == [type |-> "none", val |-> <<>>]
NoResponse == [ok |-> FALSE, text |-> <<>>, error |-> <<>>]
ParseIdle == response = NoResponse /\ sent = NoValue /\ answer = NoValue
NoTable == [ok |-> FALSE, rows |-> <<>>]
BatchIdle ==
    /\ report_exists = TRUE /\ pc = "off" /\ xlsx_output = FALSE /\ pdf_files = <<>>
    /\ file_idx = 0 /\ q_idx = 0 /\ results = PyDict(<<>>) /\ all_results = PyDict(<<>>)
    /\ successful_files = 0 /\ failed_files = 0 /\ table = NoTable
    /\ uploads = <<>> /\ asked = <<>> /\ status = <<>> /\ handled = <<>>
NamingIdle == questions = <<>> /\ naming = NoResponse /\ column_names = NoValue
MergeIdle ==
    /\ report = <<>> /\ clock = 0 /\ questions_yaml = YamlMissing
    /\ calls = 0 /\ last_call = NoCall

\* ------------------------------------------ update_markdown_file, called directly
InitMerge ==
    /\ clock = 0
    /\ report = InitialHeader(0)
    /\ questions_yaml \in YamlStates
    /\ calls = 0
    /\ last_call = NoCall
    /\ ParseIdle
    /\ NamingIdle
    /\ BatchIdle

UpdateMarkdown(pdf_title, qa_results) ==
    /\ calls < MaxCalls
    /\ \E t \in {clock, clock + 1} :
          /\ t <= MaxClock
          /\ clock' = t
          /\ LET r == update_markdown_file(report, pdf_title, qa_results, questions_yaml, t)
             IN  /\ report' = IF r.ok THEN r.text ELSE report
                 /\ last_call' = [title |-> pdf_title, qa |-> qa_results,
                                  outcome |-> IF ~r.ok THEN "raised"
                                              ELSE IF SectionFound(report, pdf_title)
                                              THEN "replaced" ELSE "appended"]
    /\ calls' = calls + 1
    /\ UNCHANGED <<questions_yaml, parseVars, namingVars, batchVars>>

NextMerge == \E pdf_title \in Titles, qa_results \in MergeResults :
                UpdateMarkdown(pdf_title, qa_results)

SpecMerge == InitMerge /\ [][NextMerge]_vars

\* ------------------------- update_markdown_file on answers of any content
\* answers holding backslash sequences and lines that look like headings
ResEscapedNewline ==
    PyDict(<< <<Q1, AnswerDict(<<"x">>, <<"a", BSL, "n", "#", "#", " ", "B">>, NA)>> >>)
ResEscapedLetter ==
    PyDict(<< <<Q1, AnswerDict(<<"x">>, <<"c", BSL, "d">>, NA)>> >>)
ResHeadingLine ==
    PyDict(<< <<Q1, AnswerDict(<<"#", "#", " ", "B">>, <<"l", NL, "#", "#", " ", "B">>,
                               <<"#", "#", " ", "A", NL, NL, "z">>)>> >>)
ContentResults == {ResEscapedNewline, ResEscapedLetter, ResHeadingLine}

NextContent == \E pdf_title \in {TitleA, TitleB}, qa_results \in ContentResults :
                  UpdateMarkdown(pdf_title, qa_results)

SpecContent == InitMerge /\ [][NextContent]_vars

\* ------------------------------------------------ query_gemini on its own
MaxLines == 2

FieldValues ==
    {PyStr(<<"x">>), PyStr(<<>>), PyStr(<<"a", NL, "b">>), PyStr(<<"\"", BSL, "n">>),
     PyNone, PyNum(<<"5">>)}

\* objects with the three required keys
FullObjects ==
    {PyDict(<< <<KEY_SHORT, a>>, <<KEY_LONG, b>>, <<KEY_QUOTE, c>> >>) :
        a \in FieldValues, b \in FieldValues, c \in FieldValues}
    \cup {PyDict(<< <<KEY_QUOTE, PyStr(<<"z">>)>>, <<<<"n","o","t","e">>, PyStr(<<"e">>)>>,
                    <<KEY_LONG, PyStr(<<"y">>)>>, <<KEY_SHORT, PyStr(<<"x">>)>> >>)}

\* objects that lack one of them
PartialObjects ==
    {PyDict(<<>>),
     PyDict(<< <<KEY_SHORT, PyStr(<<"x">>)>> >>),
     PyDict(<< <<KEY_SHORT, PyStr(<<"x">>)>>, <<KEY_LONG, PyStr(<<"y">>)>> >>),
     PyDict(<< <<KEY_LONG, PyStr(<<"y">>)>>, <<KEY_QUOTE, PyStr(<<"z">>)>> >>)}

\* JSON values that are not objects
NonObjects ==
    {PyNum(<<"5">>), PyNum(<<"0">>), PyNone, PyBool(TRUE),
     PyStr(<<"a", "b", "c">>), PyStr(<<>>),
     PyStr(KEY_SHORT \o <<" ">> \o KEY_LONG \o <<" ">> \o KEY_QUOTE),
     PyList(<<>>), PyList(<<PyStr(<<"x">>)>>),
     PyList(<<PyStr(KEY_SHORT), PyStr(KEY_LONG), PyStr(KEY_QUOTE)>>)}

SentValues == FullObjects \cup PartialObjects \cup NonObjects

\* lines of a reply that is not JSON
ReplyLines ==
    {<<>>,
     <<"h", "i">>,
     LABEL_SHORT \o <<" ", "X">>,
     LABEL_SHORT,
     <<" ", "S","h","o","r","t"," ","A","n","s","w","e","r",":", " ", "X">>,
     LABEL_LONG \o <<" ", "Y">>,
     LABEL_LONG,
     <<"L","O","N","G"," ","A","N","S","W","E","R",":", " ", "Y">>,
     LABEL_QUOTE \o <<" ", "Z">>,
     LABEL_QUOTE,
     <<"{", "\"", "a", "\"">>}

RECURSIVE LineSeqs(_)
LineSeqs(n) ==
    IF n = 0 THEN {<<>>}
    ELSE LET shorter == LineSeqs(n - 1)
         IN  shorter \cup {Append(ls, l) : ls \in {x \in shorter : Len(x) = n - 1},
                                            l \in ReplyLines}

RawTexts == {join(ls, <<NL>>) : ls \in LineSeqs(MaxLines) \ {<<>>}}

ErrorMessages == {<<"5", "0", "3">>, <<>>}

TextResponse(t) == [ok |-> TRUE, text |-> t, error |-> <<>>]
FailedResponse(msg) == [ok |-> FALSE, text |-> <<>>, error |-> msg]

InitParse ==
    /\ MergeIdle
    /\ NamingIdle
    /\ BatchIdle
    /\ answer = NoValue
    /\ \/ \E v \in SentValues : sent = v /\ response = TextResponse(Encode(v))
       \/ \E t \in RawTexts : sent = NoValue /\ response = TextResponse(t)
       \/ \E m \in ErrorMessages : sent = NoValue /\ response = FailedResponse(m)

QueryGemini ==
    /\ answer = NoValue
    /\ answer' = query_gemini(response)
    /\ UNCHANGED <<response, sent, mergeVars, namingVars, batchVars>>

NextParse == QueryGemini

SpecParse == InitParse /\ [][NextParse]_vars


\* ------------------------- generate_column_names_from_questions on its own
MaxQuestions == 2

Q3 == <<"r", " ", "s", "?">>
QuestionPool == {Q1, Q2, Q3}

RECURSIVE QuestionLists(_)
QuestionLists(n) ==
    IF n = 0 THEN {<<>>}
    ELSE LET shorter == QuestionLists(n - 1)
         IN  shorter \cup {Append(qs, q) : qs \in {x \in shorter : Len(x) = n - 1},
                                            q \in QuestionPool}

NameP == PyStr(<<"P">>)
NameQ == PyStr(<<"Q">>)

\* what the naming call can give: lists of every length up to MaxQuestions
\* + 1 (with repeated names and the title header among them), values that
\* are not lists, text that is not JSON, an exception
NamingValues ==
    {PyList(<<>>), PyList(<<NameP>>), PyList(<<NameP, NameQ>>), PyList(<<NameP, NameP>>),
     PyList(<<PyStr(PDF_TITLE), NameQ>>), PyList(<<NameP, NameQ, NameP>>),
     PyDict(<< <<<<"P">>, NameQ>> >>), PyStr(<<"P">>), PyNone}

NamingOutcomes ==
    {TextResponse(Encode(v)) : v \in NamingValues}
    \cup {TextResponse(<<"[", "\"", "P">>), FailedResponse(<<"5", "0", "3">>)}

InitNaming ==
    /\ MergeIdle
    /\ ParseIdle
    /\ BatchIdle
    /\ questions \in QuestionLists(MaxQuestions)
    /\ naming \in NamingOutcomes
    /\ column_names = NoValue

GenerateColumnNames ==
    /\ column_names = NoValue
    /\ column_names' = generate_column_names_from_questions(questions, naming)
    /\ UNCHANGED <<questions, naming, mergeVars, parseVars, batchVars>>

NextNaming == GenerateColumnNames

SpecNaming == InitNaming /\ [][NextNaming]_vars


\* ------------------------------------------------------- process_directory
MaxFiles == 2

FileA == <<"A", ".", "p", "d", "f">>
FileB == <<"B", ".", "p", "d", "f">>
FileA2 == <<"A", ".", "P", "D", "F">>
FileTxt == <<"n", ".", "t", "x", "t">>
DirEntries == {FileA, FileB, FileA2, FileTxt}
PDF_EXT == <<".", "p", "d", "f">>

\* os.listdir: the entries of the directory in an arbitrary order
RECURSIVE Listings(_)
Listings(n) ==
    IF n = 0 THEN {<<>>}
    ELSE LET shorter == Listings(n - 1)
         IN  shorter \cup
             {Append(fs, f) : fs \in {x \in shorter : Len(x) = n - 1},
                              f \in DirEntries}

DistinctEntries(fs) == \A i, j \in 1..Len(fs) : i # j => fs[i] # fs[j]
DirListings == {fs \in Listings(MaxFiles) : DistinctEntries(fs)}

\* [f for f in os.listdir(pdf_dir) if f.lower().endswith('.pdf')]
RECURSIVE PdfFilesOf(_)
PdfFilesOf(listing) ==
    IF listing = <<>> THEN <<>>
    ELSE (IF endswith(lower(Head(listing)), PDF_EXT) THEN <<Head(listing)>> ELSE <<>>)
         \o PdfFilesOf(Tail(listing))

GoodAnswer == AnswerDict(<<"x">>, <<"l", NL, NL, "m">>, <<"z">>)
BatchResponses ==
    {TextResponse(Encode(GoodAnswer)), FailedResponse(<<"5", "0", "3">>)}

BatchNamings ==
    {TextResponse(Encode(v)) :
        v \in {PyList(<<NameP, NameQ>>), PyList(<<NameP, NameP>>),
               PyList(<<PyStr(PDF_TITLE), NameQ>>), PyList(<<NameP>>)}}
    \cup {FailedResponse(<<"5", "0", "3">>)}

InitBatch ==
    /\ ParseIdle
    /\ naming = NoResponse /\ column_names = NoValue
    /\ questions \in {Questions, <<>>}
    /\ questions_yaml \in YamlStates
    /\ report = <<>> /\ report_exists = FALSE
    /\ clock = 0 /\ calls = 0 /\ last_call = NoCall
    /\ pc = "idle" /\ xlsx_output = FALSE /\ pdf_files = <<>>
    /\ file_idx = 0 /\ q_idx = 0 /\ results = PyDict(<<>>) /\ all_results = PyDict(<<>>)
    /\ successful_files = 0 /\ failed_files = 0 /\ table = NoTable
    /\ uploads = <<>> /\ asked = <<>> /\ status = <<>> /\ handled = <<>>

\* process_directory up to the document loop (lines 621-651)
StartRun(listing, xlsx, nm) ==
    /\ pc = "idle"
    /\ xlsx_output' = xlsx
    /\ IF questions = <<>>
       THEN /\ pc' = "done"                              \* "No questions loaded"
            /\ UNCHANGED <<column_names, pdf_files, report, report_exists, file_idx>>
       ELSE /\ column_names' = IF xlsx
                               THEN generate_column_names_from_questions(questions, nm)
                               ELSE NoValue
            /\ pdf_files' = PdfFilesOf(listing)
            /\ IF PdfFilesOf(listing) = <<>>
               THEN /\ pc' = "done"                      \* "No PDF files found"
                    /\ UNCHANGED <<report, report_exists, file_idx>>
               ELSE /\ pc' = "loop"
                    /\ file_idx' = 1
                    /\ report_exists' = TRUE
                    /\ report' = IF report_exists THEN report ELSE InitialHeader(clock)
    /\ UNCHANGED <<clock, questions_yaml, calls, last_call, parseVars, questions, naming,
                   q_idx, results, all_results, successful_files, failed_files, table,
                   uploads, asked, status, handled>>

\* the loop body whose handler of line 681 does not count the document
AfterUpdateUncounted(r, qa_results, pdf_title) ==
    IF ~r.ok
    THEN [report |-> report, all_results |-> all_results,
          successful_files |-> successful_files,
          failed_files |-> failed_files, status |-> "update_raised"]
    ELSE [report |-> r.text,
          all_results |-> IF xlsx_output
                          THEN DictSet(all_results, pdf_title, qa_results)
                          ELSE all_results,
          successful_files |-> successful_files + 1,
          failed_files |-> failed_files, status |-> "ok"]

\* lines 667-685 once update_markdown_file has returned r: the report is
\* written and the document counted as processed, or the exception is caught
\* and the document counted as failed
AfterUpdate(r, qa_results, pdf_title) ==
    IF ~r.ok
    THEN [report |-> report, all_results |-> all_results,
          successful_files |-> successful_files,
          failed_files |-> failed_files + 1, status |-> "update_raised"]
    ELSE [report |-> r.text,
          all_results |-> IF xlsx_output
                          THEN DictSet(all_results, pdf_title, qa_results)
                          ELSE all_results,
          successful_files |-> successful_files + 1,
          failed_files |-> failed_files, status |-> "ok"]

\* the body of the document loop without the "if qa_results" test
LoopBodyAlwaysUpdate(qa_results, pdf_title, t) ==
    AfterUpdate(update_markdown_file(IF report_exists THEN report ELSE <<>>,
                                     pdf_title, qa_results, questions_yaml, t),
                qa_results, pdf_title)

\* the body of the document loop once process_pdf has returned qa_results
\* (lines 665-685): what it leaves in the report, the accumulated results
\* and the counters
LoopBody(qa_results, pdf_title, t) ==
    IF qa_results.val = <<>>
    THEN [report |-> report, all_results |-> all_results,
          successful_files |-> successful_files,
          failed_files |-> failed_files + 1, status |-> "no_results"]
    ELSE LoopBodyAlwaysUpdate(qa_results, pdf_title, t)

\* the state the loop body leaves behind
LoopBodyDone(b) ==
    /\ report' = b.report
    /\ all_results' = b.all_results
    /\ successful_files' = b.successful_files
    /\ failed_files' = b.failed_files
    /\ status' = Append(status, b.status)

\* process_pdf whose upload raises: it returns {} (lines 506-510) and the
\* loop body runs on it
UploadFails ==
    /\ pc = "loop" /\ file_idx <= Len(pdf_files)
    /\ uploads' = Append(uploads, file_idx)
    /\ LoopBodyDone(LoopBody(PyDict(<<>>), get_pdf_title(pdf_files[file_idx]), clock))
    /\ handled' = Append(handled, PyDict(<<>>))
    /\ file_idx' = file_idx + 1
    /\ UNCHANGED <<clock, questions_yaml, calls, last_call, parseVars, namingVars,
                   report_exists, pc, xlsx_output, pdf_files, q_idx, results, table, asked>>

\* process_pdf whose upload succeeds (lines 486-492)
UploadOk ==
    /\ pc = "loop" /\ file_idx <= Len(pdf_files)
    /\ uploads' = Append(uploads, file_idx)
    /\ pc' = "ask"
    /\ q_idx' = 1
    /\ results' = PyDict(<<>>)
    /\ UNCHANGED <<report, clock, questions_yaml, calls, last_call, parseVars, namingVars,
                   report_exists, xlsx_output, pdf_files, file_idx, all_results,
                   successful_files, failed_files, table, asked, status, handled>>

\* one turn of the question loop (lines 493-498)
AskQuestion(resp) ==
    /\ pc = "ask" /\ q_idx <= Len(questions)
    /\ response' = resp
    /\ answer' = query_gemini(resp)
    /\ results' = DictSet(results, questions[q_idx], query_gemini(resp))
    /\ asked' = Append(asked, <<file_idx, questions[q_idx]>>)
    /\ q_idx' = q_idx + 1
    /\ UNCHANGED <<report, clock, questions_yaml, calls, last_call, sent, namingVars,
                   report_exists, pc, xlsx_output, pdf_files, file_idx, all_results,
                   successful_files, failed_files, table, uploads, status, handled>>

\* process_pdf returns its results and the loop body runs on them
FinishPdf ==
    /\ pc = "ask" /\ q_idx > Len(questions)
    /\ \E t \in {clock, clock + 1} :
          /\ t <= MaxClock
          /\ clock' = t
          /\ LoopBodyDone(LoopBody(results, get_pdf_title(pdf_files[file_idx]), t))
    /\ handled' = Append(handled, results)
    /\ calls' = calls + 1
    /\ pc' = "loop"
    /\ file_idx' = file_idx + 1
    /\ UNCHANGED <<questions_yaml, last_call, parseVars, namingVars, report_exists,
                   xlsx_output, pdf_files, q_idx, results, table, uploads, asked>>

\* after the loop (lines 687-692): the export, when requested and there is
\* something to export; its exception is logged
EndOfLoop(write_ok) ==
    /\ pc = "loop" /\ file_idx > Len(pdf_files)
    /\ pc' = "done"
    /\ table' = IF xlsx_output /\ all_results.val # <<>> /\ column_names.val # <<>>
                THEN export_to_xlsx(all_results, questions, column_names, write_ok)
                ELSE table
    /\ UNCHANGED <<report, clock, questions_yaml, calls, last_call, parseVars, namingVars,
                   report_exists, xlsx_output, pdf_files, file_idx, q_idx, results,
                   all_results, successful_files, failed_files, uploads, asked, status,
                   handled>>

NextBatch ==
    \/ \E listing \in DirListings, xlsx \in BOOLEAN, nm \in BatchNamings :
          StartRun(listing, xlsx, nm)
    \/ UploadFails
    \/ UploadOk
    \/ \E resp \in BatchResponses : AskQuestion(resp)
    \/ FinishPdf
    \/ \E write_ok \in BOOLEAN : EndOfLoop(write_ok)

Spec == InitBatch /\ [][NextBatch]_vars


\* --------------------------- a run whose answers can make the update raise
\* a reply that is a JSON object with the three keys and a number as short
\* answer: query_gemini returns it as decoded, and _format_for_blockquote
\* then calls .split on the number
NumericAnswer ==
    PyDict(<< <<KEY_SHORT, PyNum(<<"5">>)>>, <<KEY_LONG, PyStr(<<"l">>)>>,
              <<KEY_QUOTE, PyStr(<<"z">>)>> >>)
CountResponses == BatchResponses \cup {TextResponse(Encode(NumericAnswer))}
CountNamings == {TextResponse(Encode(PyList(<<NameP, NameQ>>)))}

InitCount == InitBatch /\ questions_yaml = YamlMissing

NextCount ==
    \/ \E listing \in DirListings, xlsx \in BOOLEAN, nm \in CountNamings :
          StartRun(listing, xlsx, nm)
    \/ UploadFails
    \/ UploadOk
    \/ \E resp \in CountResponses : AskQuestion(resp)
    \/ FinishPdf
    \/ \E write_ok \in BOOLEAN : EndOfLoop(write_ok)

SpecCount == InitCount /\ [][NextCount]_vars

\* ------------------------------------------------ a run that is cut short
\* open(md_path, 'w') empties the file and f.write fills it again (lines
\* 575-577): a process that dies in between leaves the file empty or with
\* the part of new_content written so far
WriteCuts(new_content) == {0, Len(new_content) \div 2}
TornWrites(new_content) == {SubSeq(new_content, 1, n) : n \in WriteCuts(new_content)}

\* what the file holds when the process dies inside the write of r
CrashedWrite(r) == r.ok /\ report' \in TornWrites(r.text)

\* the process dies between two writes of the report
Crash ==
    /\ pc \in {"loop", "ask"}
    /\ pc' = "crashed"
    /\ UNCHANGED <<report, clock, questions_yaml, calls, last_call, parseVars, namingVars,
                   report_exists, xlsx_output, pdf_files, file_idx, q_idx, results,
                   all_results, successful_files, failed_files, table, uploads, asked,
                   status, handled>>

\* the process dies while update_markdown_file writes the report of the
\* document at hand
CrashInWrite ==
    /\ pc = "ask" /\ q_idx > Len(questions) /\ results.val # <<>>
    /\ \E t \in {clock, clock + 1} :
          /\ t <= MaxClock
          /\ clock' = t
          /\ CrashedWrite(update_markdown_file(report, get_pdf_title(pdf_files[file_idx]),
                                               results, questions_yaml, t))
    /\ pc' = "crashed"
    /\ UNCHANGED <<questions_yaml, calls, last_call, parseVars, namingVars,
                   report_exists, xlsx_output, pdf_files, file_idx, q_idx, results,
                   all_results, successful_files, failed_files, table, uploads, asked,
                   status, handled>>

NextCrash == NextBatch \/ Crash \/ CrashInWrite

SpecCrash == InitBatch /\ [][NextCrash]_vars


\* ------------------------------------------------------- report inspection
\* places where the text "## <title>" stands followed by a line end,
\* whether or not it begins a line
HeadingOccurrences(s, pdf_title) ==
    {i \in 1..Len(s) :
        /\ PrefixAt(s, i, H2 \o pdf_title)
        /\ (i + 3 + Len(pdf_title) = Len(s) + 1 \/ s[i + 3 + Len(pdf_title)] = NL)}

\* number of section bodies: each rendered section has one timestamp line
TimestampLines(s) == {i \in 1..Len(s) : s[i] = PROCESSED}

\* the section of a title as a later update would delimit it
SectionText(s, pdf_title) ==
    LET i == Min({k \in 1..Len(s) : HeadingAt(s, k, pdf_title)})
    IN  SubSeq(s, i, SectionEnd(s, i + 3 + Len(pdf_title)) - 1)

\* the titles of Titles in the order their sections stand in the report
RECURSIVE HeadingOrder(_, _)
HeadingOrder(s, pos) ==
    LET hs == {i \in pos..Len(s) : \E t \in Titles : HeadingAt(s, i, t)}
    IN  IF hs = {} THEN <<>>
        ELSE <<CHOOSE t \in Titles : HeadingAt(s, Min(hs), t)>>
             \o HeadingOrder(s, Min(hs) + 1)

MaskTimestamps(s) ==
    [k \in 1..Len(s) |-> IF k > 1 /\ s[k - 1] = PROCESSED THEN "TS" ELSE s[k]]

\* ------------------------------------------------------------------ claims
\* C1: after any sequence of update_markdown_file calls on the freshly
\* initialised report, no title's heading occurs twice and there are no
\* more section bodies than titles present (no stale section survives).
C1_OneSectionPerTitle ==
    /\ \A t \in Titles : Cardinality(HeadingOccurrences(report, t)) <= 1
    /\ Cardinality(TimestampLines(report))
          <= Cardinality({t \in Titles : HeadingOccurrences(report, t) # {}})

\* C2: a call that replaces the section of a title leaves every other
\* section in place: it is still found under its own heading line, with the
\* same text, and the sections keep their order.
C2_OtherSectionsUnchanged ==
    [][(calls' = calls + 1 /\ last_call'.outcome = "replaced") =>
          /\ \A u \in Titles \ {last_call'.title} :
                SectionFound(report, u) =>
                   /\ SectionFound(report', u)
                   /\ strip(SectionText(report', u)) = strip(SectionText(report, u))
          /\ HeadingOrder(report', 1) = HeadingOrder(report, 1)]_vars

\* C3: a second call with the same title and the same results leaves the
\* report as the first call left it, timestamps aside.
C3_Idempotent ==
    [][(/\ calls' = calls + 1
        /\ last_call.outcome \in {"appended", "replaced"}
        /\ last_call'.outcome \in {"appended", "replaced"}
        /\ last_call'.title = last_call.title
        /\ last_call'.qa = last_call.qa)
          => MaskTimestamps(report') = MaskTimestamps(report)]_vars

\* a value that is a JSON object with the three required keys
HasRequiredKeys(v) ==
    v.type = "dict" /\ \A k \in 1..3 : DictHas(v, RequiredKeys[k])

\* the text decodes to an object with the three required keys
FullJson(text) ==
    LET r == json_loads(text) IN r.ok /\ HasRequiredKeys(r.val)

HasLongLabelLine(text) ==
    LET lines == split(text, NL)
    IN  \E i \in 1..Len(lines) : startswith(strip(lower(lines[i])), LABEL_LONG)

\* C4: when the service sent a JSON object with the three required keys,
\* query_gemini returns a dict whose three fields are the values sent.
C4_JsonValuesUnchanged ==
    (answer # NoValue /\ response.ok /\ HasRequiredKeys(sent)) =>
        /\ answer.type = "dict"
        /\ \A k \in 1..3 :
              DictGet(answer, RequiredKeys[k], NoValue) = DictGet(sent, RequiredKeys[k], NoValue)

C4_Witness ==
    /\ answer # NoValue /\ response.ok /\ HasRequiredKeys(sent)
    /\ DictGet(sent, KEY_LONG, NoValue) = PyStr(<<"a", NL, "b">>)
    /\ DictGet(sent, KEY_QUOTE, NoValue) = PyStr(<<"\"", BSL, "n">>)
    /\ DictGet(answer, KEY_LONG, NoValue) = PyStr(<<"a", NL, "b">>)
    /\ DictGet(answer, KEY_QUOTE, NoValue) = PyStr(<<"\"", BSL, "n">>)

\* C5: for a response text that is not a JSON object with the three keys,
\* the returned record has a non-empty long answer, and when no line
\* carries the 'long answer:' label the long answer is the whole raw text.
C5_FallbackKeepsRawText ==
    (answer # NoValue /\ response.ok /\ ~FullJson(response.text)) =>
        /\ answer.type = "dict"
        /\ DictGet(answer, KEY_LONG, NoValue).type = "str"
        /\ DictGet(answer, KEY_LONG, NoValue).val # <<>>
        /\ (~HasLongLabelLine(response.text) =>
               DictGet(answer, KEY_LONG, NoValue).val = response.text)

\* C6: every record returned by query_gemini has the three fields present,
\* each a non-empty string.
C6_FieldsPopulated ==
    answer # NoValue =>
        /\ answer.type = "dict"
        /\ \A k \in 1..3 :
              /\ DictHas(answer, RequiredKeys[k])
              /\ DictGet(answer, RequiredKeys[k], NoValue).type = "str"
              /\ DictGet(answer, RequiredKeys[k], NoValue).val # <<>>

\* the naming call gave a JSON list with one item per question
NamingUsable ==
    /\ naming.ok
    /\ LET r == json_loads(naming.text)
       IN  r.ok /\ r.val.type = "list" /\ Len(r.val.val) = Len(questions)

\* C7: generate_column_names_from_questions returns a list with exactly one
\* name per question, for every question list and every outcome of the
\* naming call; when the call fails or gives anything but a list of that
\* length, the list returned is the fallback one.
C7_OneNamePerQuestion ==
    column_names # NoValue =>
        /\ column_names.type = "list"
        /\ Len(column_names.val) = Len(questions)
        /\ (~NamingUsable => column_names = _create_fallback_column_names(questions))

C7_Witness ==
    /\ column_names # NoValue
    /\ Len(questions) = 2
    /\ naming = TextResponse(Encode(PyList(<<NameP, NameQ, NameP>>)))
    /\ Len(column_names.val) = 2

\* --------------------------------------------------- claims about the batch
\* titles of the documents that ended "ok", in processing order, each once
RECURSIVE ProcessedTitles(_)
ProcessedTitles(n) ==
    IF n = 0 THEN <<>>
    ELSE LET before == ProcessedTitles(n - 1)
             t == get_pdf_title(pdf_files[n])
         IN  IF status[n] = "ok" /\ ~(\E k \in 1..Len(before) : before[k] = t)
             THEN Append(before, t) ELSE before

\* the short answer recorded for a title and a question, "NA" when there is
\* no record
ExpectedCell(d, i) ==
    LET qa == all_results.val[d][2]
    IN  IF DictHas(qa, questions[i])
        THEN DictGet(DictGet(qa, questions[i], NoValue), KEY_SHORT, PyStr(NA))
        ELSE PyStr(NA)

\* C8: the exported table has one row per title of the accumulated results,
\* in processing order, and the cell of every (document, question) holds the
\* short answer recorded for it ("NA" when there is none).
C8_TableRows ==
    table.ok =>
        /\ Len(table.rows) = Len(all_results.val)
        /\ DictKeys(all_results) = ProcessedTitles(Len(status))
        /\ \A d \in 1..Len(table.rows) : \A i \in 1..Len(questions) :
              DictGet(table.rows[d], column_names.val[i], NoValue) = ExpectedCell(d, i)

\* C9: a document whose upload fails is counted failed, leaves the report,
\* the accumulated results and the list of queries as they were, and the
\* loop moves to the next document; every document is uploaded once, in
\* order, no query is made for a document that ended without results, and a
\* finished run has attempted every document.
UploadFailedStep == Len(uploads') = Len(uploads) + 1 /\ pc' # "ask"

C9_UploadFailureSkipsDocument ==
    /\ [][UploadFailedStep =>
             /\ failed_files' = failed_files + 1
             /\ successful_files' = successful_files
             /\ report' = report
             /\ all_results' = all_results
             /\ asked' = asked
             /\ pc' = "loop" /\ file_idx' = file_idx + 1]_vars
    /\ [](/\ uploads = [k \in 1..Len(uploads) |-> k]
          /\ \A k \in 1..Len(asked) :
                asked[k][1] <= Len(status) => status[asked[k][1]] # "no_results"
          /\ (pc = "done" /\ pdf_files # <<>> => Len(uploads) = Len(pdf_files)))

C9_Witness ==
    /\ pc = "done"
    /\ Len(status) = 2
    /\ status[1] = "no_results" /\ status[2] = "ok"
    /\ failed_files = 1 /\ successful_files = 1
    /\ Cardinality(TimestampLines(report)) = 1

\* the block a section holds for a question whose query failed with msg
ErrorBlockHead(question, msg) ==
    <<QPOST>> \o question \o <<NL, NL, ">", " ", HDR_SHORT, NL, ">", " ", ERROR_PREFIX>> \o msg

\* C10: a failed query gives the question a record with the error text as
\* short and long answer and "NA" as quote and does not end the document;
\* the questions of a document are asked in list order; and when the
\* document is finished it is not failed and its section in the report
\* holds the record of every question whose query failed.
C10_QueryFailureIsRecorded ==
    /\ [][(Len(asked') = Len(asked) + 1 /\ ~response'.ok) =>
             /\ DictGet(results', questions[q_idx], NoValue)
                   = AnswerDict(<<ERROR_PREFIX>> \o response'.error,
                                <<ERROR_PREFIX>> \o response'.error, NA)
             /\ pc' = "ask" /\ q_idx' = q_idx + 1
             /\ failed_files' = failed_files]_vars
    /\ [](pc = "ask" =>
             \A k \in 1..(q_idx - 1) :
                asked[Len(asked) - (q_idx - 1) + k] = <<file_idx, questions[k]>>)
    /\ [][(pc = "ask" /\ pc' = "loop") =>
             \A k \in 1..Len(questions) : \A m \in ErrorMessages :
                DictGet(results, questions[k], NoValue) = ErrorRecord(m) =>
                   /\ status'[file_idx] = "ok"
                   /\ contains(report', ErrorBlockHead(questions[k], m))]_vars

\* ------------------------------------------- claims about the whole run
\* the block a section holds for a question and its record, without its
\* number and closing blank lines
AnswerBlock(question, record) ==
    LET b == QuestionBlock(1, question, record)
    IN  strip(SubSeq(b.text, 3, Len(b.text)))

\* the numbering list that update_markdown_file reads is the list of the run
NumberingMatchesRun == questions_yaml \in {YamlMissing, YamlOf(questions)}

\* C11: at the end of a run, every document whose upload succeeded has a
\* section under its title in the report, and that section holds the record
\* of each of its questions (runs whose numbering list is the run's list).
C11_EveryUploadedDocumentHasSection ==
    (pc = "done" /\ NumberingMatchesRun) =>
        \A n \in 1..Len(handled) :
            handled[n].val # <<>> =>
                /\ SectionFound(report, get_pdf_title(pdf_files[n]))
                /\ \A k \in 1..Len(questions) :
                      contains(SectionText(report, get_pdf_title(pdf_files[n])),
                               AnswerBlock(questions[k],
                                           DictGet(handled[n], questions[k], NoValue)))

\* the document loop has handled every document found
AllDocumentsHandled == Len(status) = Len(pdf_files)

\* C12: the column names are derived, and the table is built and written,
\* only once the last document has been handled and its section written; a
\* run that found documents handles all of them whatever the naming call
\* and the table write do.
C12_ExportAfterLastDocument ==
    /\ column_names # NoValue => AllDocumentsHandled
    /\ table # NoTable => AllDocumentsHandled
    /\ (pc = "done" /\ pdf_files # <<>>) => AllDocumentsHandled

\* the sections of the documents completed so far stand in text s
CompletedSectionsIn(s) ==
    \A n \in 1..Len(status) :
        status[n] = "ok" => SectionFound(s, get_pdf_title(pdf_files[n]))

\* document n has the title of the document at hand
SameTitleAsCurrent(n) ==
    /\ file_idx <= Len(pdf_files)
    /\ get_pdf_title(pdf_files[n]) = get_pdf_title(pdf_files[file_idx])

\* C13: the report holds the section of a document as soon as that document
\* is completed and before the next upload begins, and a run that is cut
\* short at any point, the write of a later document included, leaves the
\* sections of the documents completed before (under another title than the
\* document at hand) as they were.
C13_CompletedSectionsSurviveCrash ==
    [][/\ (pc = "ask" /\ pc' = "loop" /\ status'[file_idx] = "ok") =>
              SectionFound(report', get_pdf_title(pdf_files[file_idx]))
       /\ Len(uploads') = Len(uploads) + 1 => CompletedSectionsIn(report)
       /\ (pc # "crashed" /\ pc' = "crashed") =>
              \A n \in 1..Len(status) :
                  (status[n] = "ok" /\ ~SameTitleAsCurrent(n)) =>
                      /\ SectionFound(report', get_pdf_title(pdf_files[n]))
                      /\ SectionText(report', get_pdf_title(pdf_files[n]))
                            = SectionText(report, get_pdf_title(pdf_files[n]))]_vars

\* ------------------------------------------- claims about the line scan
\* C14: whenever the response text does not decode, decodes to a value that
\* is not an object, or decodes to an object lacking one of the three keys,
\* the record returned is the line scan of the raw text.
C14_ScanOnEveryTrigger ==
    (answer # NoValue /\ response.ok /\ ~FullJson(response.text)) =>
        answer = _create_fallback_response(response.text)

\* the text of a line after its label: the line without the blanks around
\* it and without its first Len(label) characters
AfterLabel(line, label) == SubSeq(strip(line), Len(label) + 1, Len(strip(line)))

\* a line carries a label when it begins with it, letter case and the
\* blanks around the line aside
HasLabel(line, label) == startswith(lower(strip(line)), label)

\* the record the scan is to give from line i on: each value is the text
\* after its label
RECURSIVE LabelledValues(_, _, _, _, _)
LabelledValues(lines, i, short_answer, long_answer, quote) ==
    IF i > Len(lines) THEN AnswerDict(short_answer, long_answer, quote)
    ELSE IF HasLabel(lines[i], LABEL_SHORT)
    THEN LabelledValues(lines, i + 1, strip(AfterLabel(lines[i], LABEL_SHORT)),
                        long_answer, quote)
    ELSE IF HasLabel(lines[i], LABEL_QUOTE)
    THEN LabelledValues(lines, i + 1, short_answer, long_answer,
                        strip(AfterLabel(lines[i], LABEL_QUOTE)))
    ELSE IF HasLabel(lines[i], LABEL_LONG)
    THEN AnswerDict(short_answer,
                    strip(join(<<AfterLabel(lines[i], LABEL_LONG)>>
                               \o SubSeq(lines, i + 1, Len(lines)), <<NL>>)),
                    quote)
    ELSE LabelledValues(lines, i + 1, short_answer, long_answer, quote)

\* C15: for a response text that does not decode as JSON, the record holds,
\* for a 'short answer:' or 'quote:' line, the trimmed text after the label
\* and, from the first 'long answer:' line on, the rest of the input without
\* that label, whatever the letter case of the labels and the indentation
\* of the lines.
C15_ValuesAreTextAfterLabel ==
    (answer # NoValue /\ response.ok /\ ~json_loads(response.text).ok) =>
        answer = LabelledValues(split(response.text, NL), 1, NA, response.text, NA)

\* ----------------------------------------- claims about numbering and columns
\* the section of a title whose blocks follow the question list qs: one
\* block per question of qs present in the results, numbered by its place
SectionFollowing(qs, pdf_title, qa_results, t) ==
    strip(NewSection(pdf_title, qa_results, YamlOf(qs), t).text)

\* C16: the section written for a document holds one block for every
\* question of its results, in the order of the run's question list, each
\* numbered by its place in that list.
C16_BlocksFollowRunQuestions ==
    [][(pc = "ask" /\ pc' = "loop" /\ status'[file_idx] = "ok") =>
          strip(SectionText(report', get_pdf_title(pdf_files[file_idx])))
             = SectionFollowing(questions, get_pdf_title(pdf_files[file_idx]),
                                results, clock')]_vars

\* C17: every row of the exported table has the document title under the
\* PDF_Title header and then one cell per question, the cell of question i
\* under column name i.
C17_OneCellPerQuestion ==
    table.ok =>
        \A d \in 1..Len(table.rows) :
            /\ Len(table.rows[d].val) = 1 + Len(questions)
            /\ table.rows[d].val[1] = <<PyStr(PDF_TITLE), PyStr(all_results.val[d][1])>>
            /\ \A i \in 1..Len(questions) :
                  table.rows[d].val[i + 1][1] = column_names.val[i]

\* ------------------------------------- claims about the replaced section
\* text s with the first section of the title replaced by the text repl
\* taken as it is
LiteralReplace(s, pdf_title, repl) ==
    LET i == Min({k \in 1..Len(s) : HeadingAt(s, k, pdf_title)})
    IN  SubSeq(s, 1, i - 1) \o repl
        \o SubSeq(s, SectionEnd(s, i + 3 + Len(pdf_title)), Len(s))

\* C18: a call for a title that has a section does not raise, and puts in
\* the place of that section the text an append would have stored, blank
\* lines around it aside, character for character.
C18_ReplacementIsLiteral ==
    [][(calls' = calls + 1 /\ SectionFound(report, last_call'.title)) =>
          /\ last_call'.outcome = "replaced"
          /\ report' = LiteralReplace(report, last_call'.title,
                          strip(NewSection(last_call'.title, last_call'.qa,
                                           questions_yaml, clock').text))]_vars

\* ------------------------------------------------ claims about the counters
\* the step ends the document at hand after its queries
DocumentFinished == pc = "ask" /\ pc' = "loop"

\* the update of the report for the document at hand raises
UpdateRaises ==
    ~update_markdown_file(report, get_pdf_title(pdf_files[file_idx]), results,
                          questions_yaml, clock').ok

\* C19: successful_files + failed_files is the number of documents handled
\* so far, and the number of PDF files found once the loop has ended; a
\* document is counted successful only by a step that writes its section
\* (with the record of each question) to the report; when the update of the
\* report raises, the document is counted failed, the report stays as it
\* was and the loop goes on to the next document.
C19_EveryDocumentCountedOnce ==
    /\ [](/\ successful_files + failed_files = Len(status)
          /\ (pc = "done" /\ pdf_files # <<>>) => successful_files + failed_files = Len(pdf_files))
    /\ [][/\ successful_files' # successful_files =>
                /\ DocumentFinished
                /\ successful_files' = successful_files + 1
                /\ failed_files' = failed_files
                /\ SectionFound(report', get_pdf_title(pdf_files[file_idx]))
                /\ \A section \in {SectionText(report', get_pdf_title(pdf_files[file_idx]))} :
                      \A k \in 1..Len(questions) :
                         \A block \in {AnswerBlock(questions[k],
                                                   DictGet(results, questions[k], NoValue))} :
                            contains(section, block)
          /\ (DocumentFinished /\ UpdateRaises) =>
                /\ failed_files' = failed_files + 1
                /\ successful_files' = successful_files
                /\ report' = report
                /\ pc' = "loop" /\ file_idx' = file_idx + 1]_vars

C19_Witness ==
    /\ pc = "done"
    /\ Len(pdf_files) = 2
    /\ status = <<"update_raised", "ok">>
    /\ failed_files = 1 /\ successful_files = 1
    /\ SectionFound(report, get_pdf_title(pdf_files[2]))
    /\ ~SectionFound(report, get_pdf_title(pdf_files[1]))

\* ------------------------------------------- claims about section boundaries
\* the places of text s where a line begins with "## "
BoundaryLines(s) == {i \in 1..Len(s) : LineStart(s, i) /\ PrefixAt(s, i, H2)}

\* the line at i is the heading of a section as update_markdown_file
\* renders it: "## <title>", an empty line and the timestamp line
RenderedHeadingAt(s, i) ==
    \E t \in Titles : PrefixAt(s, i, H2 \o t \o <<NL, NL, PROCESSED>>)

\* C20: in the report, the only lines that begin with "## " are the heading
\* lines of the sections: no line that comes from an answer does.
C20_OnlyHeadingsAreBoundaries ==
    \A i \in BoundaryLines(report) : RenderedHeadingAt(report, i)

====
